---------------------------- MODULE Spec2Model ----------------------------
(***************************************************************************)
(* Model of src/proxy/universal_proxy.js (class Universal_proxy).          *)
(*                                                                         *)
(* A caller constructs a wrapper around a target and then drives it with   *)
(* structural operations (read, write, in, delete, defineProperty,         *)
(* get/setPrototypeOf, preventExtensions, isExtensible, call, new).  Each  *)
(* operation runs one trap handler to completion.  The handler is modelled *)
(* as the sequence of steps it executes (hook calls, the Reflect.*         *)
(* operation, log calls); a hook or the sink may raise when it is called,  *)
(* which cuts the sequence there.                                          *)
(*                                                                         *)
(* JavaScript values are records [t, v, p, w]: t is the typeof-class,      *)
(* v the primitive's text or the heap identity, w says the value is a      *)
(* Proxy and names the method that made it ("" for a raw value), and p is  *)
(* that proxy's path.  Strings are TLA+ strings, so template literals, String() and     *)
(* JSON.stringify are computed as text.                                    *)
(***************************************************************************)
EXTENDS Naturals, Sequences, FiniteSets, TLC

VARIABLES
    options,   \* this.options, fixed by the constructor
    root,      \* the value the constructor returned
    heap,      \* the objects of the environment and of the caller
    last,      \* the operation the caller performed last, and its outcome
    trace,     \* the steps the last trap handler executed, in order
    written,   \* the last write that returned true, while only reads of its key followed
    muts       \* number of operations so far that changed the heap

vars == <<options, root, heap, last, trace, written, muts>>

(***************************************************************************)
(* Bounds of the model.                                                    *)
(***************************************************************************)
\* operations that change the heap, per run
MaxMut == 1
\* the caller keeps using wrappers whose path has at most this many segments
MaxSegs == 3

(***************************************************************************)
(* JavaScript values.                                                      *)
(***************************************************************************)
Raw(t, v)  == [t |-> t, v |-> v, p |-> "", w |-> ""]
Undefined  == Raw("undefined", "undefined")
Null       == Raw("null", "null")
Str(s)     == Raw("string", s)
BigInt(s)  == Raw("bigint", s)
Bool(b)    == Raw("boolean", IF b THEN "true" ELSE "false")
RawObj(o)  == Raw("object", o)
RawFn(f)   == Raw("function", f)

\* createProxy(target, path): new Proxy(target, {get, set, has, ...})
createProxy(target, path) ==
    [t |-> target.t, v |-> target.v, p |-> path, w |-> "createProxy"]
\* createFunctionProxy(fn, path): new Proxy(fn, {apply, construct})
createFunctionProxy(fn, path) ==
    [t |-> fn.t, v |-> fn.v, p |-> path, w |-> "createFunctionProxy"]

IsObjectLike(x) == x.t \in {"object", "function"}
IsWrapped(x)    == x.w # ""
\* the raw value a proxy stands for
TargetOf(x)     == Raw(x.t, x.v)

(***************************************************************************)
(* The environment being wrapped and the caller's own values.              *)
(***************************************************************************)
Objs == {"env", "nav", "con", "tpl", "usr"}
Fns  == {"ael", "log", "create", "cb"}
\* the default prototype of plain objects; it has no own property the model reads
ObjectPrototype == "Object.prototype"

Prop(k, x) == [k |-> k, v |-> x]

InitHeap ==
    [o \in Objs |->
        [props |->
            CASE o = "env" -> << Prop("self", RawObj("env")),
                                 Prop("navigator", RawObj("nav")),
                                 Prop("console", RawObj("con")),
                                 Prop("addEventListener", RawFn("ael")) >>
              [] o = "nav" -> << Prop("language", Str("en")),
                                 Prop("doNotTrack", Null),
                                 Prop("create", RawFn("create")) >>
              [] o = "con" -> << Prop("log", RawFn("log")) >>
              [] o = "tpl" -> << Prop("kind", Str("t")) >>
              [] o = "usr" -> << Prop("tag", Str("u")) >>,
         proto |-> ObjectPrototype,
         ext   |-> TRUE]]

\* Function.prototype.name of each function
FnName(f) ==
    CASE f = "ael"    -> "addEventListener"
      [] f = "log"    -> "log"
      [] f = "create" -> "create"
      [] f = "cb"     -> "cb"

\* what calling f returns
FnResult(f) == IF f = "create" THEN RawObj("tpl") ELSE Undefined
\* what new f(...) returns
FnInstance(f) == RawObj("tpl")
\* own properties of a function object
FnProp(f, k) ==
    CASE k = "name"      -> Str(FnName(f))
      [] k = "prototype" -> RawObj("tpl")
      [] OTHER           -> Undefined

(***************************************************************************)
(* Ordinary (unintercepted) object operations: what Reflect.* does on a    *)
(* raw target.  Every property of the model is a writable, enumerable,     *)
(* configurable data property.                                             *)
(***************************************************************************)
HasOwn(h, o, k) == \E i \in 1..Len(h[o].props) : h[o].props[i].k = k
OwnIndex(h, o, k) == CHOOSE i \in 1..Len(h[o].props) : h[o].props[i].k = k
OwnValue(h, o, k) == IF HasOwn(h, o, k) THEN h[o].props[OwnIndex(h, o, k)].v ELSE Undefined

RECURSIVE ChainHas(_, _, _, _)
ChainHas(h, o, k, fuel) ==
    IF o \notin Objs \/ fuel = 0 THEN FALSE
    ELSE IF HasOwn(h, o, k) THEN TRUE
    ELSE ChainHas(h, h[o].proto, k, fuel - 1)

RECURSIVE ChainGet(_, _, _, _)
ChainGet(h, o, k, fuel) ==
    IF o \notin Objs \/ fuel = 0 THEN Undefined
    ELSE IF HasOwn(h, o, k) THEN OwnValue(h, o, k)
    ELSE ChainGet(h, h[o].proto, k, fuel - 1)

\* Reflect.get(t, prop, receiver) on a raw target
ReflectGet(h, target, k) ==
    IF target.t = "function" THEN FnProp(target.v, k)
    ELSE ChainGet(h, target.v, k, Cardinality(Objs))

\* Reflect.has(t, prop)
ReflectHas(h, target, k) ==
    IF target.t = "function" THEN k \in {"name", "prototype"}
    ELSE ChainHas(h, target.v, k, Cardinality(Objs))

\* whether proto p's chain reaches o (setPrototypeOf refuses such a cycle)
RECURSIVE ProtoReaches(_, _, _, _)
ProtoReaches(h, p, o, fuel) ==
    IF p \notin Objs \/ fuel = 0 THEN FALSE
    ELSE IF p = o THEN TRUE
    ELSE ProtoReaches(h, h[p].proto, o, fuel - 1)

\* a defineProperty that adds properties but leaves an existing one as it was
DefineOnNewOnly(h, o, k, x) ==
    IF HasOwn(h, o, k) \/ ~h[o].ext THEN h
    ELSE [h EXCEPT ![o].props = Append(@, Prop(k, x))]

\* Reflect.defineProperty(t, prop, {value: x, ...}): its boolean result
DefineAllowed(h, o, k) == HasOwn(h, o, k) \/ h[o].ext
\* ... and the heap after it
DefineOn(h, o, k, x) ==
    IF ~DefineAllowed(h, o, k) THEN h
    ELSE IF HasOwn(h, o, k)
         THEN [h EXCEPT ![o].props[OwnIndex(h, o, k)].v = x]
         ELSE [h EXCEPT ![o].props = Append(@, Prop(k, x))]

\* Reflect.deleteProperty(t, prop): always true for configurable properties
DeleteOn(h, o, k) ==
    [h EXCEPT ![o].props = SelectSeq(@, LAMBDA pr : pr.k # k)]

\* Reflect.setPrototypeOf(t, proto): its boolean result, and the heap after it
SetProtoAllowed(h, o, p) ==
    \/ h[o].proto = p
    \/ h[o].ext /\ ~ProtoReaches(h, p, o, Cardinality(Objs))
SetProtoOn(h, o, p) == IF SetProtoAllowed(h, o, p) THEN [h EXCEPT ![o].proto = p] ELSE h

\* Reflect.preventExtensions(t)
PreventOn(h, o) == [h EXCEPT ![o].ext = FALSE]

(***************************************************************************)
(* Strings.                                                                *)
(***************************************************************************)
\* String.prototype.includes
Includes(s, sub) ==
    \E i \in 1..(Len(s) + 1) :
        /\ i + Len(sub) - 1 <= Len(s)
        /\ SubSeq(s, i, i + Len(sub) - 1) = sub

\* number of dot-separated segments of a path
NumSegs(path) == 1 + Cardinality({i \in 1..Len(path) : SubSeq(path, i, i) = "."})

\* Property keys are strings; a symbol key is written "@@" followed by its
\* description.
IsSymbol(prop) == Len(prop) >= 2 /\ SubSeq(prop, 1, 2) = "@@"
Description(prop) == SubSeq(prop, 3, Len(prop))
\* String(prop)
KeyString(prop) == IF IsSymbol(prop) THEN "Symbol(" \o Description(prop) \o ")" ELSE prop
\* typeof prop === 'symbol' ? prop.description ?? '[Symbol]' : prop
PropStr(prop) == IF IsSymbol(prop) THEN Description(prop) ELSE prop

\* `${path}.${String(prop)}`
FullPath(path, prop) == path \o "." \o KeyString(prop)

\* String(value) / `${value}` of a value that is not a wrapped object
StringOf(x) ==
    CASE x.t = "function" -> IF IsWrapped(x) THEN "function () { [native code] }"
                             ELSE "function " \o FnName(x.v) \o "() {}"
      [] x.t = "object"   -> "[object Object]"
      [] OTHER            -> x.v

Quote(s) == "\"" \o s \o "\""

(***************************************************************************)
(* The constructor's options.                                              *)
(***************************************************************************)
OptionNames == {"logLevel", "watchedProps", "contextName", "type", "bindThis",
                "beforeGet", "afterGet", "beforeSet", "afterSet",
                "beforeApply", "afterApply"}
HookNames == {"beforeGet", "afterGet", "beforeSet", "afterSet", "beforeApply", "afterApply"}

\* watchedProps: null, an Array or a Set of keys
WNull      == [kind |-> "null",  items |-> {}]
WArray(a)  == [kind |-> "array", items |-> a]
WSet(s)    == [kind |-> "set",   items |-> s]

\* A hook option is null, or a function.  A function hook returns undefined
\* ("pass") or a replacement ("subst"); whether a call of it raises is decided
\* per call (see Cut).
Defaults ==
    [n \in OptionNames |->
        CASE n = "logLevel"     -> "info"
          [] n = "watchedProps" -> WNull
          [] n = "contextName"  -> "obj"
          [] n = "type"         -> "object"
          [] n = "bindThis"     -> FALSE
          [] OTHER              -> "null"]

\* { ...defaults, ...options }, then watchedProps Array -> Set
MergeOptions(given) ==
    LET merged == [n \in OptionNames |-> IF n \in DOMAIN given THEN given[n] ELSE Defaults[n]]
    IN  IF merged["watchedProps"].kind = "array"
        THEN [merged EXCEPT !["watchedProps"] =
                 WSet({merged["watchedProps"].items[i] :
                          i \in 1..Len(merged["watchedProps"].items)})]
        ELSE merged

\* new Universal_proxy(target, given): the value the constructor returns
Construct(target, given) ==
    LET opts      == MergeOptions(given)
        startPath == opts["contextName"]
    IN  IF opts["type"] = "method" /\ target.t = "function"
        THEN createFunctionProxy(target, startPath)
        ELSE createProxy(target, startPath)

\* what the replacing hooks return
HookValue == Str("spoof")
HookArgs  == << Str("spoof") >>

(***************************************************************************)
(* Steps of a trap handler.                                                *)
(***************************************************************************)
NoEv == [actor |-> "", op |-> "", subject |-> "", detail |-> "", result |-> "", line |-> ""]

HookStep(name)   == [k |-> "hook",  name |-> name, ev |-> NoEv]
OpStep(name)     == [k |-> "op",    name |-> name, ev |-> NoEv]
ThrowStep(err)   == [k |-> "throw", name |-> err,  ev |-> NoEv]

\* log(...messages): the sink the line goes to
LogSink ==
    IF options["logLevel"] = "function" THEN "custom"
    ELSE IF options["logLevel"] \in {"info", "warn", "error", "debug", "log"}
         THEN "console." \o options["logLevel"]
         ELSE "console.log"
LogStep(ev)      == [k |-> "log", name |-> LogSink, ev |-> ev]

\* options.hook?.(...): a step when the hook is configured
CallHook(name) == IF options[name] = "null" THEN <<>> ELSE << HookStep(name) >>
\* options.hook?.(...) ?? value
HookOr(name, replacement, value) == IF options[name] = "subst" THEN replacement ELSE value

\* a read's log line whose path field is the path with the key joined on
GetEventFullPath(path, prop, txt) ==
    [actor |-> FullPath(path, prop), op |-> "get", subject |-> PropStr(prop), detail |-> "",
     result |-> txt,
     line |-> "caller => [" \o FullPath(path, prop) \o "] get => [" \o PropStr(prop)
              \o "], result => [" \o txt \o "]"]

\* The log lines.  The labels stand for the source's: caller = 調用者,
\* result = 結果, value = 值為, and the operation labels below.
GetEvent(path, prop, txt) ==
    [actor |-> path, op |-> "get", subject |-> PropStr(prop), detail |-> "", result |-> txt,
     line |-> "caller => [" \o path \o "] get => [" \o PropStr(prop) \o "], result => [" \o txt \o "]"]
SetEvent(path, prop, txt) ==
    [actor |-> path, op |-> "set", subject |-> PropStr(prop), detail |-> "", result |-> txt,
     line |-> "caller => [" \o path \o "] set => [" \o PropStr(prop) \o "], value => [" \o txt \o "]"]
HasEvent(path, prop, txt) ==
    [actor |-> path, op |-> "has", subject |-> PropStr(prop), detail |-> "", result |-> txt,
     line |-> "caller => [" \o path \o "] in => [" \o PropStr(prop) \o "], result => [" \o txt \o "]"]
DeleteEvent(path, prop, txt) ==
    [actor |-> path, op |-> "deleteProperty", subject |-> PropStr(prop), detail |-> "", result |-> txt,
     line |-> "caller => [" \o path \o "] delete => [" \o PropStr(prop) \o "], result => [" \o txt \o "]"]
DefineEvent(path, prop, attrs, txt) ==
    [actor |-> path, op |-> "defineProperty", subject |-> PropStr(prop), detail |-> attrs, result |-> txt,
     line |-> "caller => [" \o path \o "] define => [" \o PropStr(prop) \o "] descriptor => ["
              \o attrs \o "], result => [" \o txt \o "]"]
GetProtoEvent(path, txt) ==
    [actor |-> path, op |-> "getPrototypeOf", subject |-> "", detail |-> "", result |-> txt,
     line |-> "caller => [" \o path \o "] getPrototypeOf => [], result => [" \o txt \o "]"]
SetProtoEvent(path, txt) ==
    [actor |-> path, op |-> "setPrototypeOf", subject |-> "", detail |-> txt, result |-> "",
     line |-> "caller => [" \o path \o "] setPrototypeOf => [" \o txt \o "]"]
PreventEvent(path) ==
    [actor |-> path, op |-> "preventExtensions", subject |-> "", detail |-> "", result |-> "",
     line |-> "caller => [" \o path \o "] preventExtensions => []"]
IsExtEvent(path, txt) ==
    [actor |-> path, op |-> "isExtensible", subject |-> "", detail |-> "", result |-> txt,
     line |-> "caller => [" \o path \o "] isExtensible => [], result => [" \o txt \o "]"]
ApplyEvent(path, name, args, txt) ==
    [actor |-> path, op |-> "apply", subject |-> name, detail |-> args, result |-> txt,
     line |-> "caller => [" \o path \o "] call => [" \o name \o "], args => [" \o args
              \o "], result => [" \o txt \o "]"]
ConstructEvent(path, name, args, txt) ==
    [actor |-> path, op |-> "construct", subject |-> name, detail |-> args, result |-> txt,
     line |-> "caller => [" \o path \o "] construct => [" \o name \o "], args => [" \o args
              \o "], result => [" \o txt \o "]"]

(***************************************************************************)
(* The get trap, safeStringify and JSON.stringify.  They call each other:  *)
(* the get trap serializes what it returns, and JSON.stringify of a        *)
(* wrapped object reads toJSON and every own key through the get trap.     *)
(* d is the nesting depth; the engine's stack holds StackLimit levels.     *)
(***************************************************************************)
StackLimit == Cardinality(Objs) + 1

\* a bypass that takes the listed keys instead of the unlisted ones
WatchedBypassListed(prop) ==
    /\ options["watchedProps"].kind # "null"
    /\ prop \in options["watchedProps"].items

\* self.options.watchedProps && !self.options.watchedProps.has(prop)
WatchedBypass(prop) ==
    /\ options["watchedProps"].kind # "null"
    /\ prop \notin options["watchedProps"].items

\* path.includes('console')
ConsoleExempt(path) == Includes(path, "console")

\* value && typeof value === 'object' -> createProxy; typeof value === 'function'
\* -> createFunctionProxy
WrapResult(value, fullPath) ==
    IF value.t = "object" THEN createProxy(value, fullPath)
    ELSE IF value.t = "function" THEN createFunctionProxy(value, fullPath)
    ELSE value

Ok(steps, txt)      == [steps |-> steps, thrown |-> "", undef |-> FALSE, txt |-> txt]
Skipped(steps)      == [steps |-> steps, thrown |-> "", undef |-> TRUE,  txt |-> ""]
Thrown(steps, err)  == [steps |-> steps, thrown |-> err, undef |-> FALSE, txt |-> ""]
Got(steps, thrown, ret) == [steps |-> steps, thrown |-> thrown, ret |-> ret]

\* whether a [[Get]] on x runs createProxy's get trap
HasGetTrap(x) == x.w = "createProxy"

\* the own enumerable properties JSON.stringify walks (ownKeys and
\* getOwnPropertyDescriptor have no trap: they see the target's)
OwnProps(h, value) == IF value.v \in Objs THEN h[value.v].props ELSE <<>>

\* get: Reflect.get, the wrapping of its result, afterGet's replacement
GetValue(h, P, prop) ==
    HookOr("afterGet", HookValue,
           WrapResult(ReflectGet(h, TargetOf(P), prop), FullPath(P.p, prop)))

\* get: beforeGet, Reflect.get, afterGet
GetSteps == CallHook("beforeGet") \o << OpStep("get") >> \o CallHook("afterGet")

\* get: self.log(`... ${self.safeStringify(finalValue)}`); return finalValue
GetLogged(P, prop, finalValue, ss) ==
    IF ss.thrown # "" THEN Got(GetSteps \o ss.steps, ss.thrown, Undefined)
    ELSE Got(GetSteps \o ss.steps \o << LogStep(GetEvent(P.p, prop, ss.txt)) >>,
             "", finalValue)

\* `${JSON.stringify(value)}` when JSON.stringify yields undefined
UndefinedAsText(j) == IF j.undef THEN Ok(j.steps, "undefined") ELSE j

\* "{" members "}"
Braced(tj, m) ==
    IF m.thrown # "" THEN Thrown(tj.steps \o m.steps, m.thrown)
    ELSE Ok(tj.steps \o m.steps, "{" \o m.txt \o "}")

\* one member "key":value in front of the rest; an undefined value is left out
MemberJoin(k, steps, jv, rest) ==
    IF rest.thrown # "" THEN Thrown(steps \o rest.steps, rest.thrown)
    ELSE IF jv.undef THEN [rest EXCEPT !.steps = steps \o rest.steps]
    ELSE IF rest.undef THEN Ok(steps \o rest.steps, Quote(k) \o ":" \o jv.txt)
    ELSE Ok(steps \o rest.steps, Quote(k) \o ":" \o jv.txt \o "," \o rest.txt)

RECURSIVE GetTrap(_, _, _, _)
RECURSIVE SafeStringify(_, _, _)
RECURSIVE JsonValue(_, _, _, _)
RECURSIVE JsonTyped(_, _, _, _, _)
RECURSIVE JsonMembers(_, _, _, _, _)
RECURSIVE MemberRead(_, _, _, _, _, _)
RECURSIVE MemberText(_, _, _, _, _, _, _)

\* createProxy's get(t, prop, receiver) on the proxy P
GetTrap(h, P, prop, d) ==
    IF WatchedBypass(prop) \/ ConsoleExempt(P.p)
    THEN Got(<<>>, "", ReflectGet(h, TargetOf(P), prop))
    ELSE GetLogged(P, prop, GetValue(h, P, prop),
                   SafeStringify(h, GetValue(h, P, prop), d))

\* safeStringify(value)
SafeStringify(h, value, d) ==
    IF value.t \in {"null", "undefined"} THEN Ok(<<>>, StringOf(value))
    ELSE IF value.t = "object" THEN UndefinedAsText(JsonValue(h, value, {}, d))
    ELSE Ok(<<>>, StringOf(value))

\* JSON.stringify's SerializeJSONProperty, once the value is in hand: read
\* value.toJSON (through the get trap when the value is a wrapped object) ...
JsonValue(h, value, stack, d) ==
    JsonTyped(h, value, stack, d,
              IF value.t = "object" /\ HasGetTrap(value)
              THEN GetTrap(h, value, "toJSON", d)
              ELSE Got(<<>>, "", Undefined))

\* ... then serialize by type.  A raw object already on the stack is a
\* cycle (TypeError); a proxy is a fresh object each time and never is, so a
\* cycle read through proxies recurses until the stack is exhausted
\* (RangeError).
JsonTyped(h, value, stack, d, tj) ==
    IF tj.thrown # "" THEN Thrown(tj.steps, tj.thrown)
    ELSE CASE value.t = "null"    -> Ok(tj.steps, "null")
           [] value.t = "boolean" -> Ok(tj.steps, value.v)
           [] value.t = "string"  -> Ok(tj.steps, Quote(value.v))
           [] value.t = "bigint"  -> Thrown(tj.steps, "TypeError")
           [] value.t \in {"undefined", "function"} -> Skipped(tj.steps)
           [] value.t = "object"  ->
                IF ~IsWrapped(value) /\ value.v \in stack
                THEN Thrown(tj.steps, "TypeError")
                ELSE IF d >= StackLimit THEN Thrown(tj.steps, "RangeError")
                ELSE Braced(tj, JsonMembers(h, value,
                                    IF IsWrapped(value) THEN stack
                                    ELSE stack \cup {value.v},
                                    d + 1, 1))

\* SerializeJSONObject: the members from the i-th own key on
JsonMembers(h, value, stack, d, i) ==
    IF i > Len(OwnProps(h, value)) THEN Skipped(<<>>)
    ELSE MemberRead(h, value, stack, d, i,
                    IF HasGetTrap(value)
                    THEN GetTrap(h, value, OwnProps(h, value)[i].k, d)
                    ELSE Got(<<>>, "", OwnProps(h, value)[i].v))

\* the i-th member, its value read as g
MemberRead(h, value, stack, d, i, g) ==
    IF g.thrown # "" THEN Thrown(g.steps, g.thrown)
    ELSE MemberText(h, value, stack, d, i, g, JsonValue(h, g.ret, stack, d))

\* the i-th member, its value serialized as jv
MemberText(h, value, stack, d, i, g, jv) ==
    IF jv.thrown # "" THEN Thrown(g.steps \o jv.steps, jv.thrown)
    ELSE MemberJoin(OwnProps(h, value)[i].k, g.steps \o jv.steps, jv,
                    JsonMembers(h, value, stack, d, i + 1))

(***************************************************************************)
(* The other traps.  Each yields the steps of the whole handler, what it   *)
(* raises (thrown), what it returns (ret) and the heap after it (h2).      *)
(***************************************************************************)
Done(steps, thrown, ret, h2) == [steps |-> steps, thrown |-> thrown, ret |-> ret, h2 |-> h2]
Truth(b) == IF b THEN "true" ELSE "false"

\* one array element in front of the rest; undefined and functions read null
ItemJoin(jv, rest) ==
    IF rest.thrown # "" THEN Thrown(jv.steps \o rest.steps, rest.thrown)
    ELSE IF rest.undef
         THEN Ok(jv.steps \o rest.steps, IF jv.undef THEN "null" ELSE jv.txt)
         ELSE Ok(jv.steps \o rest.steps,
                 (IF jv.undef THEN "null" ELSE jv.txt) \o "," \o rest.txt)

\* JSON.stringify of a raw array: the elements from the i-th on
RECURSIVE JsonItems(_, _, _)
RECURSIVE ItemText(_, _, _, _)
JsonItems(h, items, i) ==
    IF i > Len(items) THEN Skipped(<<>>)
    ELSE ItemText(h, items, i, JsonValue(h, items[i], {}, 1))
ItemText(h, items, i, jv) ==
    IF jv.thrown # "" THEN jv ELSE ItemJoin(jv, JsonItems(h, items, i + 1))

\* "[" elements "]"
Bracketed(j) == IF j.thrown # "" THEN j ELSE Ok(j.steps, "[" \o j.txt \o "]")

\* safeStringify(finalArgs): typeof [] === 'object' -> JSON.stringify
StringifyArgs(h, items) == Bracketed(JsonItems(h, items, 1))

\* the text of the descriptor object handed to the defineProperty trap:
\* {value: x} or the full data descriptor
AttributesText(jv, full) ==
    IF jv.thrown # "" THEN jv
    ELSE Ok(jv.steps,
            "{" \o (IF jv.undef THEN ""  ELSE "\"value\":" \o jv.txt)
                \o (IF full /\ ~jv.undef THEN "," ELSE "")
                \o (IF full THEN "\"writable\":true,\"enumerable\":true,\"configurable\":true"
                    ELSE "")
                \o "}")

\* safeStringify(attributes)
StringifyAttributes(h, x, full) == AttributesText(JsonValue(h, x, {}, 1), full)

\* defineProperty: log the result of Reflect.defineProperty, return it
DefineLogged(P, prop, result, h2, ss) ==
    IF ss.thrown # ""
    THEN Done(<< OpStep("defineProperty") >> \o ss.steps, ss.thrown, Undefined, h2)
    ELSE Done(<< OpStep("defineProperty") >> \o ss.steps
                \o << LogStep(DefineEvent(P.p, prop, ss.txt, Truth(result))) >>,
              "", Bool(result), h2)

\* createProxy's defineProperty(t, prop, attributes)
DefineTrap(h, P, prop, x, full) ==
    DefineLogged(P, prop, DefineAllowed(h, P.v, prop), DefineOn(h, P.v, prop, x),
                 StringifyAttributes(DefineOn(h, P.v, prop, x), x, full))

\* Reflect.set(t, prop, newValue, receiver) with the proxy as receiver: the
\* ordinary [[Set]] finds a writable data property (or none) and defines the
\* value on the receiver, which runs the receiver's defineProperty trap, with
\* {value} for an existing own property and the full descriptor for a new one.
ReflectSet(h, P, prop, newValue) ==
    DefineTrap(h, P, prop, newValue, ~HasOwn(h, P.v, prop))

\* a write that consults beforeSet only after Reflect.set
SetStepsHookLate(rs) == << OpStep("set") >> \o rs.steps \o CallHook("beforeSet")

\* set: beforeSet, Reflect.set
SetSteps(rs) == CallHook("beforeSet") \o << OpStep("set") >> \o rs.steps

\* set: afterSet, self.log(`... ${self.safeStringify(newValue)}`); return success
SetLogged(P, prop, rs, ss) ==
    IF ss.thrown # ""
    THEN Done(SetSteps(rs) \o CallHook("afterSet") \o ss.steps, ss.thrown, Undefined, rs.h2)
    ELSE Done(SetSteps(rs) \o CallHook("afterSet") \o ss.steps
                \o << LogStep(SetEvent(P.p, prop, ss.txt)) >>,
              "", rs.ret, rs.h2)

\* set: what follows Reflect.set
SetAfterReflect(P, prop, newValue, rs) ==
    IF rs.thrown # "" THEN Done(SetSteps(rs), rs.thrown, Undefined, rs.h2)
    ELSE SetLogged(P, prop, rs, SafeStringify(rs.h2, newValue, 0))

\* createProxy's set(t, prop, value, receiver)
SetTrap(h, P, prop, value) ==
    SetAfterReflect(P, prop, HookOr("beforeSet", HookValue, value),
                    ReflectSet(h, P, prop, HookOr("beforeSet", HookValue, value)))

\* createProxy's has(t, prop)
HasTrap(h, P, prop) ==
    Done(<< OpStep("has"),
            LogStep(HasEvent(P.p, prop, Truth(ReflectHas(h, TargetOf(P), prop)))) >>,
         "", Bool(ReflectHas(h, TargetOf(P), prop)), h)

\* createProxy's deleteProperty(t, prop)
DeleteTrap(h, P, prop) ==
    Done(<< OpStep("deleteProperty"), LogStep(DeleteEvent(P.p, prop, Truth(TRUE))) >>,
         "", Bool(TRUE), DeleteOn(h, P.v, prop))

\* the value of a [[Prototype]] slot
ProtoValue(p) == IF p = "null" THEN Null ELSE RawObj(p)

\* getPrototypeOf: log the result of Reflect.getPrototypeOf, return it
GetProtoLogged(h, P, result, ss) ==
    IF ss.thrown # ""
    THEN Done(<< OpStep("getPrototypeOf") >> \o ss.steps, ss.thrown, Undefined, h)
    ELSE Done(<< OpStep("getPrototypeOf") >> \o ss.steps
                \o << LogStep(GetProtoEvent(P.p, ss.txt)) >>, "", result, h)

\* createProxy's getPrototypeOf(t)
GetPrototypeOfTrap(h, P) ==
    GetProtoLogged(h, P, ProtoValue(h[P.v].proto),
                   SafeStringify(h, ProtoValue(h[P.v].proto), 0))

\* setPrototypeOf: self.log(...); return Reflect.setPrototypeOf(t, proto)
SetProtoLogged(h, P, proto, ss) ==
    IF ss.thrown # "" THEN Done(ss.steps, ss.thrown, Undefined, h)
    ELSE Done(ss.steps \o << LogStep(SetProtoEvent(P.p, ss.txt)),
                             OpStep("setPrototypeOf") >>,
              "", Bool(SetProtoAllowed(h, P.v, proto)), SetProtoOn(h, P.v, proto))

\* createProxy's setPrototypeOf(t, proto)
SetPrototypeOfTrap(h, P, proto) ==
    SetProtoLogged(h, P, proto, SafeStringify(h, ProtoValue(proto), 0))

\* createProxy's preventExtensions(t): logs, then Reflect.preventExtensions
PreventExtensionsTrap(h, P) ==
    Done(<< LogStep(PreventEvent(P.p)), OpStep("preventExtensions") >>,
         "", Bool(TRUE), PreventOn(h, P.v))

\* createProxy's isExtensible(t)
IsExtensibleTrap(h, P) ==
    Done(<< OpStep("isExtensible"), LogStep(IsExtEvent(P.p, Truth(h[P.v].ext))) >>,
         "", Bool(h[P.v].ext), h)

\* the heap is as it was
Unchanged(g, h) == Done(g.steps, g.thrown, g.ret, h)

\* createProxy's get(t, prop, receiver), as a whole operation
GetOperation(h, P, prop) == Unchanged(GetTrap(h, P, prop, 0), h)

\* thisArg of the real call: if (self.options.bindThis) thisArg = target
BoundThis(F, thisArg) == IF options["bindThis"] THEN TargetOf(F) ELSE thisArg

\* finalArgs[0]
FirstArg(items) == IF Len(items) >= 1 THEN items[1] ELSE Undefined

\* an invoke event that serializes the whole argument list whatever the name
ApplyDetailAllArgs(h, name, finalArgs) == StringifyArgs(h, finalArgs)

\* the detail of the invoke event: fn.name === 'addEventListener' logs only
\* `${finalArgs[0]}`, any other name safeStringify(finalArgs)
ApplyDetail(h, name, finalArgs) ==
    IF name = "addEventListener" THEN Ok(<<>>, StringOf(FirstArg(finalArgs)))
    ELSE StringifyArgs(h, finalArgs)

\* apply: beforeApply, Reflect.apply, afterApply
ApplySteps == CallHook("beforeApply") \o << OpStep("apply") >> \o CallHook("afterApply")

\* apply: self.log(...); return result
ApplyLogged(h, F, result, sa, sr) ==
    IF sa.thrown # "" THEN Done(ApplySteps \o sa.steps, sa.thrown, Undefined, h)
    ELSE IF sr.thrown # ""
         THEN Done(ApplySteps \o sa.steps \o sr.steps, sr.thrown, Undefined, h)
    ELSE Done(ApplySteps \o sa.steps \o sr.steps
                \o << LogStep(ApplyEvent(F.p, FnName(F.v), sa.txt, sr.txt)) >>,
              "", result, h)

\* createFunctionProxy's apply(target, thisArg, args)
ApplyTrap(h, F, thisArg, args) ==
    ApplyLogged(h, F, HookOr("afterApply", HookValue, FnResult(F.v)),
                ApplyDetail(h, FnName(F.v), HookOr("beforeApply", HookArgs, args)),
                SafeStringify(h, HookOr("afterApply", HookValue, FnResult(F.v)), 0))

\* construct: self.log(...); return result
ConstructLogged(h, F, result, sa, sr) ==
    IF sa.thrown # "" THEN Done(<< OpStep("construct") >> \o sa.steps, sa.thrown, Undefined, h)
    ELSE IF sr.thrown # ""
         THEN Done(<< OpStep("construct") >> \o sa.steps \o sr.steps, sr.thrown, Undefined, h)
    ELSE Done(<< OpStep("construct") >> \o sa.steps \o sr.steps
                \o << LogStep(ConstructEvent(F.p, FnName(F.v), sa.txt, sr.txt)) >>,
              "", result, h)

\* createFunctionProxy's construct(target, args, newTarget)
ConstructTrap(h, F, args) ==
    ConstructLogged(h, F, FnInstance(F.v), StringifyArgs(h, args),
                    SafeStringify(h, FnInstance(F.v), 0))

\* a property read on a function proxy: its handler has no get trap, so the
\* read goes to the target
FunctionGet(h, F, prop) == Done(<<>>, "", ReflectGet(h, TargetOf(F), prop), h)

(***************************************************************************)
(* The caller.  It holds the constructor's result, the wrapper it used     *)
(* last and the value the last operation returned, and performs one        *)
(* operation at a time on one of them.  Any call of a hook or of the sink  *)
(* may raise.                                                              *)
(***************************************************************************)
ReadKeys  == {"self", "navigator", "console", "language", "create", "addEventListener",
              "log", "@@Symbol.toStringTag"}
WriteKeys == {"language"}
WriteVals == {Str("fr"), RawObj("usr"), RawFn("cb")}
DefineVals == {BigInt("1")}
ProtoVals == {"usr"}
ArgLists  == { <<>>, << Str("click"), RawFn("cb") >>, << RawObj("usr") >> }

Operation(op, w, key, x, args) ==
    [op |-> op, w |-> w, key |-> key, x |-> x, args |-> args,
     out |-> "return", ret |-> Undefined, old |-> Undefined]

NoWrite == Operation("none", Undefined, "", Undefined, <<>>)

\* the function a step calls into: a hook, or the sink
Callee(step) == IF step.k = "hook" THEN step.name ELSE IF step.k = "log" THEN "sink" ELSE ""
Callees(steps) == {Callee(steps[i]) : i \in 1..Len(steps)} \ {""}
\* the position of the first call of callee f
FirstCall(steps, f) ==
    CHOOSE i \in 1..Len(steps) :
        /\ Callee(steps[i]) = f
        /\ \A j \in 1..(i - 1) : Callee(steps[j]) # f

\* the steps executed when callee f raises as it is called ("": nothing raises)
Cut(run, f) ==
    IF f = ""
    THEN run.steps \o (IF run.thrown # "" THEN << ThrowStep(run.thrown) >> ELSE <<>>)
    ELSE SubSeq(run.steps, 1, FirstCall(run.steps, f) - 1)
         \o (IF f = "sink" THEN << ThrowStep("SinkFailure") >>
             ELSE << HookStep(f), ThrowStep("HookFailure") >>)

Mutating == {"defineProperty", "deleteProperty", "setPrototypeOf", "preventExtensions"}
Performed(steps, names) == \E i \in 1..Len(steps) : steps[i].k = "op" /\ steps[i].name \in names
Raised(steps) == Len(steps) > 0 /\ steps[Len(steps)].k = "throw"

\* the wrappers the caller may use next
Held ==
    {root}
    \cup (IF IsWrapped(last.w) THEN {last.w} ELSE {})
    \cup (IF last.out = "return" /\ IsWrapped(last.ret) /\ NumSegs(last.ret.p) <= MaxSegs
          THEN {last.ret} ELSE {})
ObjectWrappers   == {w \in Held : w.w = "createProxy" /\ w.t = "object"}
FunctionWrappers == {w \in Held : w.w = "createFunctionProxy"}

\* The caller performs operation o, whose handler runs as `run`; one of the
\* functions it calls into may raise.
Perform(o, run) ==
    \E r \in {run} : \E f \in {""} \cup Callees(r.steps) : \E steps \in {Cut(r, f)} :
        /\ trace' = steps
        /\ heap' = IF Performed(steps, Mutating) THEN r.h2 ELSE heap
        /\ muts' = IF Performed(steps, Mutating) /\ r.h2 # heap THEN muts + 1 ELSE muts
        /\ last' = [o EXCEPT !.out = IF Raised(steps) THEN "throw" ELSE "return",
                             !.ret = IF Raised(steps) THEN Undefined ELSE r.ret,
                             !.old = IF o.w.v \in Objs THEN OwnValue(heap, o.w.v, o.key)
                                     ELSE Undefined]
        /\ written' = IF o.op = "set" /\ ~Raised(steps) /\ r.ret = Bool(TRUE) THEN o
                       ELSE IF o.op = "get" /\ o.w = written.w /\ o.key = written.key
                            THEN written
                       ELSE NoWrite
        /\ UNCHANGED <<options, root>>

Get ==
    \E w \in {x \in Held : x.w = "createProxy"}, k \in ReadKeys :
        Perform(Operation("get", w, k, Undefined, <<>>), GetOperation(heap, w, k))

Set ==
    \E w \in ObjectWrappers, k \in WriteKeys, x \in WriteVals :
        /\ muts < MaxMut
        /\ Perform(Operation("set", w, k, x, <<>>), SetTrap(heap, w, k, x))

Has ==
    \E w \in {x \in Held : x.w = "createProxy"}, k \in WriteKeys :
        Perform(Operation("has", w, k, Undefined, <<>>), HasTrap(heap, w, k))

DeleteProperty ==
    \E w \in ObjectWrappers, k \in WriteKeys :
        /\ muts < MaxMut
        /\ Perform(Operation("deleteProperty", w, k, Undefined, <<>>), DeleteTrap(heap, w, k))

DefineProperty ==
    \E w \in ObjectWrappers, k \in WriteKeys, x \in DefineVals :
        /\ muts < MaxMut
        /\ Perform(Operation("defineProperty", w, k, x, <<>>), DefineTrap(heap, w, k, x, TRUE))

GetPrototypeOf ==
    \E w \in ObjectWrappers :
        Perform(Operation("getPrototypeOf", w, "", Undefined, <<>>), GetPrototypeOfTrap(heap, w))

SetPrototypeOf ==
    \E w \in ObjectWrappers, p \in ProtoVals :
        /\ muts < MaxMut
        /\ Perform(Operation("setPrototypeOf", w, "", ProtoValue(p), <<>>),
                   SetPrototypeOfTrap(heap, w, p))

PreventExtensions ==
    \E w \in ObjectWrappers :
        /\ muts < MaxMut
        /\ Perform(Operation("preventExtensions", w, "", Undefined, <<>>),
                   PreventExtensionsTrap(heap, w))

IsExtensible ==
    \E w \in ObjectWrappers :
        Perform(Operation("isExtensible", w, "", Undefined, <<>>), IsExtensibleTrap(heap, w))

Apply ==
    \E w \in FunctionWrappers, args \in ArgLists :
        Perform(Operation("apply", w, "", BoundThis(w, Undefined), args),
                ApplyTrap(heap, w, Undefined, args))

ConstructCall ==
    \E w \in FunctionWrappers, args \in ArgLists :
        Perform(Operation("construct", w, "", Undefined, args), ConstructTrap(heap, w, args))

FunctionRead ==
    \E w \in FunctionWrappers, k \in {"name", "prototype"} :
        Perform(Operation("functionGet", w, k, Undefined, <<>>), FunctionGet(heap, w, k))

(***************************************************************************)
(* new Universal_proxy(target, given)                                      *)
(***************************************************************************)
Targets == {RawObj("env"), RawFn("create")}
AllHooks(b) == [n \in HookNames |-> b]
Given ==
    { [contextName |-> "env"],
      [contextName |-> "env", watchedProps |-> WSet({"navigator"})],
      [contextName |-> "env", watchedProps |-> WArray(<< "navigator" >>),
       bindThis |-> TRUE, logLevel |-> "function"] @@ AllHooks("pass"),
      [contextName |-> "env", type |-> "method"] @@ AllHooks("subst") }

Init ==
    \E target \in Targets, given \in Given :
        /\ options = MergeOptions(given)
        /\ root = Construct(target, given)
        /\ heap = InitHeap
        /\ last = [Operation("new", Undefined, "", target, <<>>) EXCEPT !.ret = Construct(target, given)]
        /\ trace = <<>>
        /\ written = NoWrite
        /\ muts = 0

Next ==
    \/ Get
    \/ Set
    \/ Has
    \/ DeleteProperty
    \/ DefineProperty
    \/ GetPrototypeOf
    \/ SetPrototypeOf
    \/ PreventExtensions
    \/ IsExtensible
    \/ Apply
    \/ ConstructCall
    \/ FunctionRead

Spec == Init /\ [][Next]_vars

(***************************************************************************)
(* What the last operation did, read off the state.                        *)
(***************************************************************************)
LogEvents   == SelectSeq(trace, LAMBDA s : s.k = "log")
HooksCalled == SelectSeq(trace, LAMBDA s : s.k = "hook")
NoHooks     == \A n \in HookNames : options[n] = "null"
Unrestricted == options["watchedProps"].kind = "null"
Unlisted(k) == ~Unrestricted /\ k \notin options["watchedProps"].items
HookRaised  == Raised(trace) /\ trace[Len(trace)].name = "HookFailure"
SinkRaised  == Raised(trace) /\ trace[Len(trace)].name = "SinkFailure"
\* the hook whose call raised
RaisingHook == trace[Len(trace) - 1].name
\* the event logged last
OwnEvent    == LogEvents[Len(LogEvents)].ev
\* what a read of the same key on the raw target gives
RawRead     == ReflectGet(heap, TargetOf(last.w), last.key)
\* the events of the last operation about operation op
EventsOf(op) == {i \in 1..Len(trace) : trace[i].k = "log" /\ trace[i].ev.op = op}
\* the argument list the real call received
FinalArgs   == HookOr("beforeApply", HookArgs, last.args)
\* the value the write stored
StoredValue == HookOr("beforeSet", HookValue, last.x)

(***************************************************************************)
(* C1                                                                      *)
(***************************************************************************)
\* C1: with no hooks and no watchedProps, every object or function value
\* obtained from a wrapper by a property read, a call or a construction is
\* itself a wrapper.
C1_ResultsAreWrapped ==
    (/\ last.op \in {"get", "apply", "construct", "functionGet"}
     /\ last.out = "return"
     /\ NoHooks
     /\ Unrestricted
     /\ IsObjectLike(last.ret))
    => IsWrapped(last.ret)

(***************************************************************************)
(* C2                                                                      *)
(***************************************************************************)
\* C2: without hooks, a read of key k through a wrapper of v does not fail
\* because of what v[k] holds; it returns v[k] itself when that is a
\* primitive and a wrapper whose target is v[k] when it is an object or a
\* function.
C2_ReadMatchesRawRead ==
    (/\ last.op = "get"
     /\ NoHooks
     /\ Unrestricted
     /\ ~SinkRaised)
    => /\ last.out = "return"
       /\ IF IsObjectLike(RawRead)
          THEN IsWrapped(last.ret) /\ TargetOf(last.ret) = RawRead
          ELSE last.ret = RawRead

(***************************************************************************)
(* C3                                                                      *)
(***************************************************************************)
\* C3: with watchedProps configured, a read of a key that is not listed
\* returns what the raw read returns, emits no log event and calls no hook.
C3_UnlistedReadBypasses ==
    (/\ last.op = "get"
     /\ Unlisted(last.key))
    => /\ last.out = "return"
       /\ last.ret = RawRead
       /\ trace = <<>>

\* an unlisted key holding an object was read, with every hook configured
C3_Witness ==
    /\ last.op = "get"
    /\ Unlisted(last.key)
    /\ \A n \in HookNames : options[n] # "null"
    /\ last.key = "console"
    /\ last.ret = RawObj("con")

(***************************************************************************)
(* C4                                                                      *)
(***************************************************************************)
\* C4: with watchedProps configured, a write, a membership test, a deletion
\* or a property definition on a key that is not listed emits no log event
\* and calls no hook.
C4_UnlistedKeyOperationsBypass ==
    (/\ last.op \in {"set", "has", "deleteProperty", "defineProperty"}
     /\ Unlisted(last.key))
    => /\ Len(LogEvents) = 0
       /\ Len(HooksCalled) = 0

(***************************************************************************)
(* C5                                                                      *)
(***************************************************************************)
\* C5: an operation on a wrapper whose path contains "console" emits no log
\* event, whichever operation it is.
C5_ConsolePathsAreNotLogged ==
    (/\ last.op # "new"
     /\ IsWrapped(last.w)
     /\ Includes(last.w.p, "console"))
    => Len(LogEvents) = 0

ReadAfterWrite ==
    /\ last.op = "get"
    /\ written.op = "set"
    /\ options["beforeSet"] # "subst"
    /\ options["afterGet"] # "subst"
    /\ ~HookRaised
    /\ ~SinkRaised

\* C7 as stated: with no hooks, after a write of x to k that returned true,
\* a read of k through the same wrapper yields x when x is a primitive and a
\* wrapper whose target is x when x is an object or a function; the target
\* holds x.
C7_ReadYieldsWrittenValue ==
    (ReadAfterWrite /\ NoHooks)
    => /\ last.out = "return"
       /\ OwnValue(heap, last.w.v, last.key) = written.x
       /\ IF IsObjectLike(written.x)
          THEN IsWrapped(last.ret) /\ TargetOf(last.ret) = written.x
          ELSE last.ret = written.x

\* C7: after a write of x to k that returned true the target holds x, and a
\* read of k through the same wrapper yields x when x is a primitive; when x
\* is an object or a function it yields a wrapper of x at the joined path,
\* unless the read is bypassed (k is not listed in watchedProps, or the
\* wrapper's path contains "console"), and then it yields x itself.
C7_ReadYieldsWrittenValueOrItsWrapper ==
    ReadAfterWrite
    => /\ last.out = "return"
       /\ OwnValue(heap, last.w.v, last.key) = written.x
       /\ IF ~IsObjectLike(written.x) THEN last.ret = written.x
          ELSE IF Unlisted(last.key) \/ Includes(last.w.p, "console")
               THEN last.ret = written.x
          ELSE /\ IsWrapped(last.ret)
               /\ TargetOf(last.ret) = written.x
               /\ last.ret.p = FullPath(last.w.p, last.key)

\* an object was written to an unlisted key and read back as itself
C7_Witness ==
    /\ ReadAfterWrite
    /\ written.x = RawObj("usr")
    /\ Unlisted(last.key)
    /\ last.ret = RawObj("usr")

(***************************************************************************)
(* C8                                                                      *)
(***************************************************************************)
\* C8: a call that completes emits one invoke event.  For a function named
\* addEventListener its argument field is the text of the first argument
\* only ("click" for the arguments ("click", fn)); for any other name it is
\* the serialized list of all the arguments.
C8_InvokeEventArguments ==
    (/\ last.op = "apply"
     /\ last.out = "return")
    => /\ Cardinality(EventsOf("apply")) = 1
       /\ trace[Len(trace)].k = "log"
       /\ OwnEvent.op = "apply"
       /\ OwnEvent.actor = last.w.p
       /\ OwnEvent.subject = FnName(last.w.v)
       /\ OwnEvent.detail = IF FnName(last.w.v) = "addEventListener"
                            THEN StringOf(FirstArg(FinalArgs))
                            ELSE StringifyArgs(heap, FinalArgs).txt
       /\ (FinalArgs = << Str("click"), RawFn("cb") >>)
            => OwnEvent.detail = IF FnName(last.w.v) = "addEventListener"
                                 THEN "click"
                                 ELSE "[\"click\",null]"

\* addEventListener was called with ("click", fn) and logged "click"
C8_Witness ==
    /\ last.op = "apply"
    /\ last.out = "return"
    /\ FnName(last.w.v) = "addEventListener"
    /\ FinalArgs = << Str("click"), RawFn("cb") >>
    /\ OwnEvent.detail = "click"

(***************************************************************************)
(* C9                                                                      *)
(***************************************************************************)
\* C9: a log event is emitted only after the operation it reports has been
\* performed on the target, so a sink that raises never keeps the operation
\* from taking effect.
C9_EventFollowsOperation ==
    /\ \A i \in 1..Len(trace) :
          trace[i].k = "log"
          => \E j \in 1..(i - 1) : trace[j].k = "op" /\ trace[j].name = trace[i].ev.op
    /\ SinkRaised => Performed(trace, {last.op})

(***************************************************************************)
(* C10                                                                     *)
(***************************************************************************)
\* C10 as stated: when a hook raises, the operation is aborted, no log
\* event is emitted, and for a write the target's property is left as it was.
C10_HookFailureLeavesNoTrace ==
    HookRaised
    => /\ last.out = "throw"
       /\ Len(LogEvents) = 0
       /\ last.op = "set" => OwnValue(heap, last.w.v, last.key) = last.old

\* C10: when a hook raises, the failure reaches the caller and the event of
\* the operation is not emitted.  A before-hook raises before anything was
\* done: no step ran, and for a write the target's property is left as it
\* was.  An after-hook raises after the operation was performed: for a write
\* the property definition the write went through has been logged, and the
\* target already holds the new value when that definition was accepted.
C10_HookFailureAborts ==
    HookRaised
    => /\ last.out = "throw"
       /\ EventsOf(last.op) = {}
       /\ RaisingHook \in {"beforeGet", "beforeSet", "beforeApply"}
            => /\ Len(trace) = 2
               /\ ~Performed(trace, {last.op})
               /\ last.op = "set" => OwnValue(heap, last.w.v, last.key) = last.old
       /\ RaisingHook \in {"afterGet", "afterSet", "afterApply"}
            => Performed(trace, {last.op})
       /\ RaisingHook = "afterSet"
            => /\ Cardinality(EventsOf("defineProperty")) = 1
               /\ \A i \in EventsOf("defineProperty") :
                     OwnValue(heap, last.w.v, last.key) =
                        IF trace[i].ev.result = "true" THEN StoredValue ELSE last.old

\* afterSet raised, and the target holds a new value
C10_Witness ==
    /\ HookRaised
    /\ last.op = "set"
    /\ RaisingHook = "afterSet"
    /\ OwnValue(heap, last.w.v, last.key) # last.old
=============================================================================
